---------------------------- MODULE Spec2Model ----------------------------
(***************************************************************************)
(* A model of src/bot.py: the /procurar command of the Minecraft lookup    *)
(* bot.  The command resolves its argument (a name or a UUID), probes      *)
(* every configured server through a semaphore-bounded asyncio.gather and  *)
(* answers the interaction.                                                *)
(*                                                                         *)
(* Python strings are sequences of one-character strings, so that lower(), *)
(* replace() and the regular expression act on characters.  An Optional    *)
(* value is <<>> for None and <<v>> for the value v.                       *)
(***************************************************************************)
EXTENDS Integers, Sequences, FiniteSets, TLC

\* ------------------------------------------------------------------ bounds

\* The longest configured server list.
MaxTargets == 2

\* ----------------------------------------------------------------- strings

UpperChars == <<"A", "B", "C", "D", "E", "F", "G", "H", "I", "J", "K", "L", "M",
                "N", "O", "P", "Q", "R", "S", "T", "U", "V", "W", "X", "Y", "Z">>

LowerChars == <<"a", "b", "c", "d", "e", "f", "g", "h", "i", "j", "k", "l", "m",
                "n", "o", "p", "q", "r", "s", "t", "u", "v", "w", "x", "y", "z">>

Digits == {"0", "1", "2", "3", "4", "5", "6", "7", "8", "9"}

\* The character class [0-9a-fA-F] of UUID_REGEX.
HexChars == Digits \cup {"a", "b", "c", "d", "e", "f"} \cup {"A", "B", "C", "D", "E", "F"}

\* The lower-case letter of each capital, and the capital of each letter.
LowerOf ==
    [c \in {UpperChars[i] : i \in 1..26} |->
        LowerChars[CHOOSE i \in 1..26 : UpperChars[i] = c]]

UpperOf ==
    [c \in {LowerChars[i] : i \in 1..26} |->
        UpperChars[CHOOSE i \in 1..26 : LowerChars[i] = c]]

\* str.lower() on one character: only a capital letter changes.
LowerChar(c) == IF c \in DOMAIN LowerOf THEN LowerOf[c] ELSE c

\* str.upper() on one character (used to build inputs only).
UpperChar(c) == IF c \in DOMAIN UpperOf THEN UpperOf[c] ELSE c

\* str.lower()
Lower(s) == [i \in 1..Len(s) |-> LowerChar(s[i])]

\* str.upper() (used to build inputs only)
Upper(s) == [i \in 1..Len(s) |-> UpperChar(s[i])]

NotHyphen(c) == c # "-"

\* value.replace("-", "") : every hyphen is removed.
StripHyphens(value) == SelectSeq(value, NotHyphen)

\* A replace that removes the first hyphen only (value.replace("-", "", 1)).
StripFirstHyphen(value) ==
    IF \E i \in 1..Len(value) : value[i] = "-"
    THEN LET p == CHOOSE i \in 1..Len(value) :
                     value[i] = "-" /\ \A j \in 1..(i - 1) : value[j] # "-"
         IN  SubSeq(value, 1, p - 1) \o SubSeq(value, p + 1, Len(value))
    ELSE value

normalize_uuid_first_only(value) == Lower(StripFirstHyphen(value))

\* normalize_uuid(value) = value.replace("-", "").lower()
normalize_uuid(value) == Lower(StripHyphens(value))

\* The pattern's "$": the end of the string, or just before a newline that
\* is the string's last character (Python's re without re.MULTILINE).
DollarAfter(s, n) ==
    \/ Len(s) = n
    \/ Len(s) = n + 1 /\ s[n + 1] = "\n"

\* ^[0-9a-fA-F]{32}$
MatchesPlain(s) ==
    /\ Len(s) >= 32
    /\ \A i \in 1..32 : s[i] \in HexChars
    /\ DollarAfter(s, 32)

\* ^[0-9a-fA-F]{8}-[0-9a-fA-F]{4}-[0-9a-fA-F]{4}-[0-9a-fA-F]{4}-[0-9a-fA-F]{12}$
MatchesHyphenated(s) ==
    /\ Len(s) >= 36
    /\ \A i \in 1..36 : IF i \in {9, 14, 19, 24} THEN s[i] = "-" ELSE s[i] \in HexChars
    /\ DollarAfter(s, 36)

\* UUID_REGEX.match(s) is not None
UUID_REGEX(s) == MatchesPlain(s) \/ MatchesHyphenated(s)

\* -------------------------------------------------------- building inputs

Rep(c, n) == [i \in 1..n |-> c]

\* The 8-4-4-4-12 hyphenation of a 32-character string.
Hyphenate(s) ==
    SubSeq(s, 1, 8) \o <<"-">> \o SubSeq(s, 9, 12) \o <<"-">> \o SubSeq(s, 13, 16)
        \o <<"-">> \o SubSeq(s, 17, 20) \o <<"-">> \o SubSeq(s, 21, 32)


NameSt == <<"S", "t">>

NameStOtherCase == <<"s", "T">>

NameZz == <<"z", "z">>

IdA == Rep("a", 32)

IdAUpperHyphenated == Hyphenate(Upper(IdA))

IdB == Rep("b", 32)

\* ------------------------------------------------------------ JSON values

\* A key that the object does not hold, and the JSON null.
Absent == [t |-> "absent"]

Null == [t |-> "null"]

\* A JSON array.
List(es) == [t |-> "list", v |-> es]

\* Roster entries: a bare string, or an object whose "name" and "uuid" keys
\* are Optional (<<>>: the key is missing).
StrEntry(s) == [t |-> "str", v |-> s]

DictEntry(n, u) == [t |-> "dict", name |-> n, uuid |-> u]

\* The "players" object with its "list" and "uuid" fields.
PlayersObj(l, u) == [t |-> "dict", list |-> l, uuid |-> u]

\* A status payload: online is "true", "false" or "absent".
Payload(o, p) == [online |-> o, players |-> p]

\* Python truthiness of an Optional string: None and "" are falsy.
Truthy(opt) == opt # <<>> /\ opt[1] # <<>>

\* ------------------------------------------------------- extract_players

\* players.get(field) or [] : a missing or null field is the empty list.
EntriesOf(field) == IF field.t = "list" THEN field.v ELSE <<>>

\* The entries the loop appends: every bare string, and every object whose
\* value under key is truthy.
Contributes(e, key) ==
    \/ e.t = "str"
    \/ e.t = "dict" /\ Truthy(e[key])

ValueOf(e, key) == IF e.t = "str" THEN e.v ELSE e[key][1]

Collect(field, key) ==
    LET kept == SelectSeq(EntriesOf(field), LAMBDA e : Contributes(e, key))
    IN  [i \in 1..Len(kept) |-> ValueOf(kept[i], key)]

\* payload.get("players", {}) : {} when the key is missing, None when null.
PlayersOf(payload) ==
    IF payload.players.t = "absent" THEN PlayersObj(Absent, Absent) ELSE payload.players

\* extract_players raises AttributeError when "players" is null: None.get.
ExtractRaises(payload) == PlayersOf(payload).t = "null"

\* extract_players(payload) = (names, uuids), where it does not raise.
extract_players(payload) ==
    IF ExtractRaises(payload)
    THEN <<<<>>, <<>>>>
    ELSE <<Collect(PlayersOf(payload).list, "name"), Collect(PlayersOf(payload).uuid, "uuid")>>

\* ----------------------------------------------------------- check_server

Range(seq) == {seq[i] : i \in 1..Len(seq)}

\* A truthiness test that takes a missing "online" for online.
IsOnlineUnlessFalse(payload) == payload.online # "false"

\* payload.get("online") is truthy
IsOnline(payload) == payload.online = "true"

\* A comparison that keeps the letter case of both sides.
NameMatchesCaseSensitive(player_name, names) == player_name \in Range(names)

\* player_name.lower() in {name.lower() for name in names}
NameMatches(player_name, names) ==
    Lower(player_name) \in {Lower(n) : n \in Range(names)}

\* player_uuid and normalize_uuid(player_uuid) in {normalize_uuid(u) for u in uuids}
UuidMatches(player_uuid, uuids) ==
    /\ Truthy(player_uuid)
    /\ normalize_uuid(player_uuid[1]) \in {normalize_uuid(u) : u \in Range(uuids)}

\* The body of check_server after a successful fetch: "match" (the target is
\* appended), "nomatch" (a plain return) or "raise" (AttributeError escapes).
CheckPayload(payload, player_name, player_uuid) ==
    IF ~IsOnline(payload) THEN "nomatch"
    ELSE IF ExtractRaises(payload) THEN "raise"
    ELSE IF NameMatches(player_name, extract_players(payload)[1]) THEN "match"
    ELSE IF UuidMatches(player_uuid, extract_players(payload)[2]) THEN "match"
    ELSE "nomatch"

\* ------------------------------------------------------------ HTTP calls

\* What session.get() brings back: the connection fails ("error"), the
\* ClientTimeout expires ("timeout"), or a response arrives with a status
\* and a body that is JSON ("ok") or not ("malformed").  "none": no call.
NoPayload == Payload("absent", Absent)

NoResponse == [net |-> "none", status |-> 0, json |-> "ok", body |-> NoPayload]

NetError == [net |-> "error", status |-> 0, json |-> "ok", body |-> NoPayload]

NetTimeout == [net |-> "timeout", status |-> 0, json |-> "ok", body |-> NoPayload]

HttpResponse(status, json, body) ==
    [net |-> "response", status |-> status, json |-> json, body |-> body]

\* The directory's body: an object whose "id" key is Optional.
NoProfile == [id |-> <<>>]

NoDirResponse == [net |-> "none", status |-> 0, json |-> "ok", body |-> NoProfile]

DirError == [net |-> "error", status |-> 0, json |-> "ok", body |-> NoProfile]

DirTimeout == [net |-> "timeout", status |-> 0, json |-> "ok", body |-> NoProfile]

\* The outcome of a call: the exception it raises ("": none) and its value.
Raise(exc) == [exc |-> exc, value |-> <<>>]

Return(value) == [exc |-> "", value |-> <<value>>]

\* aiohttp.ClientError and the subclasses the calls raise.
ClientErrors == {"ClientError", "ClientConnectionError", "ClientResponseError"}

\* The exception of session.get() and raise_for_status(), "" when none:
\* raise_for_status() raises ClientResponseError for a status >= 400.
TransportError(resp) ==
    IF resp.net = "error" THEN "ClientConnectionError"
    ELSE IF resp.net = "timeout" THEN "TimeoutError"
    ELSE IF resp.status >= 400 THEN "ClientResponseError"
    ELSE ""

\* fetch_json / fetch_server_status: raise_for_status(), then response.json(),
\* which raises json.JSONDecodeError (a ValueError) on a body that is no JSON.
fetch_server_status(resp) ==
    IF TransportError(resp) # "" THEN Raise(TransportError(resp))
    ELSE IF resp.json = "malformed" THEN Raise("ValueError")
    ELSE Return(resp.body)

\* A lookup without the 204 test: the empty body goes on to response.json().
fetch_uuid_for_name_no_204(resp) ==
    IF resp.net = "error" THEN Raise("ClientConnectionError")
    ELSE IF resp.net = "timeout" THEN Raise("TimeoutError")
    ELSE IF resp.status >= 400 THEN Raise("ClientResponseError")
    ELSE IF resp.json = "malformed" \/ resp.status = 204 THEN Raise("ValueError")
    ELSE [exc |-> "", value |-> resp.body.id]

\* A lookup that answers None for a failed call as it does for status 204.
fetch_uuid_for_name_errors_as_none(resp) ==
    IF resp.net # "response" \/ resp.status = 204 \/ resp.status >= 400
    THEN [exc |-> "", value |-> <<>>]
    ELSE IF resp.json = "malformed" THEN Raise("ValueError")
    ELSE [exc |-> "", value |-> resp.body.id]

\* fetch_uuid_for_name: None on status 204, else raise_for_status() and
\* data.get("id").  Its value is the Optional identifier itself.
fetch_uuid_for_name(resp) ==
    IF resp.net = "error" THEN Raise("ClientConnectionError")
    ELSE IF resp.net = "timeout" THEN Raise("TimeoutError")
    ELSE IF resp.status = 204 THEN [exc |-> "", value |-> <<>>]
    ELSE IF resp.status >= 400 THEN Raise("ClientResponseError")
    ELSE IF resp.json = "malformed" THEN Raise("ValueError")
    ELSE [exc |-> "", value |-> resp.body.id]

\* An except clause that names asyncio.TimeoutError only.
CaughtByProbeTimeoutOnly(exc) == exc = "TimeoutError"

\* except (aiohttp.ClientError, asyncio.TimeoutError)
CaughtByProbe(exc) == exc \in ClientErrors \cup {"TimeoutError"}

\* How one check_server call ends once its fetch is over: "match",
\* "nomatch" (every plain return, the except clause included) or "raise".
check_server(resp, player_name, player_uuid) ==
    LET got == fetch_server_status(resp)
    IN  IF got.exc # ""
        THEN IF CaughtByProbe(got.exc) THEN "nomatch" ELSE "raise"
        ELSE CheckPayload(got.value[1], player_name, player_uuid)

\* ----------------------------------------------------------------- inputs

ServerA == [name |-> "A", address |-> "a.example"]

ServerB == [name |-> "B", address |-> "b.example"]

\* The configured server lists: the prefixes of A, B, A, B, ... and of
\* A, A, A, ... (the same target configured more than once).
ServerLists ==
    {[i \in 1..n |-> IF i % 2 = 1 THEN ServerA ELSE ServerB] : n \in 0..MaxTargets}
        \cup {[i \in 1..n |-> ServerA] : n \in 0..MaxTargets}

\* The configured max_concurrency values (load_config keeps it >= 1).
Concurrencies == {1, 2}

\* The command's argument: a name, both identifier forms, an identifier
\* followed by a newline, and a near-identifier (a letter past f).
JogadorInputs ==
    {NameSt, IdA, IdAUpperHyphenated, IdA \o <<"\n">>, Rep("a", 31) \o <<"g">>}

\* A roster that holds the player's name in another letter case.
RosterByName == PlayersObj(List(<<StrEntry(NameStOtherCase)>>), Absent)

\* A roster that holds the player's identifier, hyphenated and in capitals.
RosterByUuid ==
    PlayersObj(List(<<DictEntry(<<NameZz>>, <<>>)>>),
               List(<<StrEntry(IdAUpperHyphenated)>>))

\* A roster of other players, with a null list and entries without keys.
RosterOthers ==
    PlayersObj(Null, List(<<DictEntry(<<>>, <<IdB>>), DictEntry(<<NameSt>>, <<>>)>>))

\* The same under the wrong keys: the identifier in "list", the name in "uuid".
RosterCrossed ==
    PlayersObj(List(<<DictEntry(<<>>, <<IdA>>), StrEntry(IdB)>>),
               List(<<StrEntry(NameSt), DictEntry(<<NameSt>>, <<>>)>>))

\* A roster that holds both the name and the identifier.
RosterBoth ==
    PlayersObj(List(<<DictEntry(<<NameSt>>, <<>>), StrEntry(IdA)>>),
               List(<<DictEntry(<<>>, <<IdA>>)>>))

StatusPayloads ==
    {Payload("true", RosterByName), Payload("true", RosterByUuid),
     Payload("true", RosterOthers), Payload("true", RosterCrossed),
     Payload("true", Null),
     Payload("false", RosterBoth), Payload("absent", RosterBoth)}

\* What the status service can answer one probe with.
StatusResponses ==
    {NetError, NetTimeout, HttpResponse(404, "ok", NoPayload),
     HttpResponse(200, "malformed", NoPayload)}
        \cup {HttpResponse(200, "ok", p) : p \in StatusPayloads}

\* What the directory can answer a lookup with.  The last is a redirect
\* status without a Location header, which session.get() hands back as it
\* is, here with a profile as its body.
DirectoryResponses ==
    {DirError, DirTimeout, HttpResponse(204, "ok", NoProfile),
     HttpResponse(404, "ok", NoProfile), HttpResponse(200, "malformed", NoProfile),
     HttpResponse(200, "ok", NoProfile), HttpResponse(200, "ok", [id |-> <<IdA>>]),
     HttpResponse(200, "ok", [id |-> <<<<>>>>]),
     HttpResponse(302, "ok", [id |-> <<IdA>>])}

\* ------------------------------------------------------------------ state

\* The command invocations that can be in progress at once.
Invocations == {1, 2}

VARIABLES
    lifecycle,        \* the bot: "init", "running" (setup_hook has run), "closed"
    http_session,     \* bot.http_session: "None", "open", "closed"
    servers,          \* bot.config.servers
    max_concurrency,  \* bot.config.max_concurrency
    pc,               \* where each invocation of procurar stands
    jogador,          \* procurar's argument
    player_uuid,      \* procurar's player_uuid (Optional)
    probe,            \* find_player_servers: each check_server task's state
    semaphore,        \* find_player_servers: the semaphore's value
    matches,          \* find_player_servers: matches, as indices into targets
    result,           \* procurar's matches: what find_player_servers returned
    sent,             \* what the invocation sent on its interaction, in order
    lookups,          \* history: the directory calls the invocation issued
    directory,        \* history: the directory's answer to the invocation
    fetched,          \* history: the status service's answer to each probe
    completed,        \* history: the probes in the order they finished
    norm_a,           \* a value and its successive normalizations
    norm_b,           \* another form of the same value, likewise
    raw_config,       \* load_config: the configuration file (Optional)
    loaded            \* load_config: how the call ended (Optional)

vars ==
    <<lifecycle, http_session, servers, max_concurrency, pc, jogador, player_uuid,
      probe, semaphore, matches, result, sent, lookups, directory, fetched,
      completed, norm_a, norm_b, raw_config, loaded>>

botVars == <<lifecycle, http_session>>

configVars == <<servers, max_concurrency>>

fpsVars == <<probe, semaphore, matches, fetched, completed>>

normVars == <<norm_a, norm_b>>

loadVars == <<raw_config, loaded>>

Targets == 1..Len(servers)

\* The state of an invocation that has not begun.
IdleInvocations ==
    /\ pc = [k \in Invocations |-> "idle"]
    /\ jogador = [k \in Invocations |-> <<>>]
    /\ player_uuid = [k \in Invocations |-> <<>>]
    /\ probe = [k \in Invocations |-> <<>>]
    /\ semaphore = [k \in Invocations |-> 0]
    /\ matches = [k \in Invocations |-> <<>>]
    /\ result = [k \in Invocations |-> <<>>]
    /\ sent = [k \in Invocations |-> <<>>]
    /\ lookups = [k \in Invocations |-> 0]
    /\ directory = [k \in Invocations |-> NoDirResponse]
    /\ fetched = [k \in Invocations |-> <<>>]
    /\ completed = [k \in Invocations |-> <<>>]

\* The bot as constructed: no session yet, the configuration loaded.
Init ==
    /\ lifecycle = "init"
    /\ http_session = "None"
    /\ servers \in ServerLists
    /\ max_concurrency \in Concurrencies
    /\ IdleInvocations
    /\ norm_a = <<>>
    /\ norm_b = <<>>
    /\ raw_config = <<>>
    /\ loaded = <<>>

\* --------------------------------------------------------------- the bot

\* setup_hook: the session is created.
SetupHook ==
    /\ lifecycle = "init"
    /\ lifecycle' = "running"
    /\ http_session' = "open"
    /\ UNCHANGED <<configVars, pc, jogador, player_uuid, fpsVars, result, sent,
                   lookups, directory, normVars, loadVars>>

\* close: the session, if there is one, is closed.  bot.run() then leaves
\* the event loop, which cancels the handlers still in progress: no
\* invocation takes a step once the bot is closed.
Close ==
    /\ lifecycle # "closed"
    /\ lifecycle' = "closed"
    /\ http_session' = IF http_session = "None" THEN "None" ELSE "closed"
    /\ UNCHANGED <<configVars, pc, jogador, player_uuid, fpsVars, result, sent,
                   lookups, directory, normVars, loadVars>>

\* ----------------------------------------------------- find_player_servers

\* A semaphore created with one slot too many.
NewSemaphoreOneMore(n) == n + 1

\* asyncio.Semaphore(max_concurrency): the initial value.
NewSemaphore(n) == n

\* One list for every call (a module-level list).
SharedMatchList(k) == 1

\* matches = [] in the body of find_player_servers: each call has the
\* list it creates.
MatchList(k) == k

\* An insertion at the head of the list (matches.insert(0, target)).
PrependMatch(ms, i) == <<i>> \o ms

\* matches.append(target)
AppendMatch(ms, i) == Append(ms, i)

\* One task for each distinct target: a target equal to an earlier one has
\* no task of its own.
TasksOfDistinct(targets) ==
    [i \in 1..Len(targets) |->
        IF \E j \in 1..(i - 1) : targets[j] = targets[i] THEN "done" ELSE "pending"]

\* (check_server(target) for target in targets): one task for each element
\* of the sequence, none of them past its "async with" yet.
TasksOf(targets) == [i \in 1..Len(targets) |-> "pending"]

\* The call of find_player_servers up to its await: an empty matches, a new
\* semaphore, and one check_server task per target, each yet to acquire.
FpsStart(k, uuid) ==
    /\ player_uuid' = [player_uuid EXCEPT ![k] = uuid]
    /\ matches' = [matches EXCEPT ![MatchList(k)] = <<>>]
    /\ semaphore' = [semaphore EXCEPT ![k] = NewSemaphore(max_concurrency)]
    /\ probe' = [probe EXCEPT ![k] = TasksOf(servers)]
    /\ fetched' = [fetched EXCEPT ![k] = [i \in Targets |-> NoResponse]]
    /\ completed' = [completed EXCEPT ![k] = <<>>]
    /\ pc' = [pc EXCEPT ![k] = "gather"]

\* "async with semaphore": task i enters when the value is positive; the
\* tasks start in target order and the semaphore wakes its waiters in FIFO
\* order, so the earliest task still outside enters first.  It then issues
\* its status request.
ProbeAcquire(k, i) ==
    /\ lifecycle # "closed"
    /\ i \in DOMAIN probe[k]
    /\ probe[k][i] = "pending"
    /\ \A j \in 1..(i - 1) : probe[k][j] # "pending"
    /\ semaphore[k] > 0
    /\ semaphore' = [semaphore EXCEPT ![k] = @ - 1]
    /\ probe' = [probe EXCEPT ![k][i] = "inflight"]
    /\ UNCHANGED <<botVars, configVars, pc, jogador, player_uuid, matches, result,
                   sent, lookups, directory, fetched, completed, normVars, loadVars>>

\* A release that is skipped when an exception leaves the block.
ReleasedUnlessRaised(value, how) == IF how = "raise" THEN value ELSE value + 1

\* The end of "async with semaphore": __aexit__ releases the semaphore
\* however the block is left.
Released(value, how) == value + 1

\* The status request of task i is over: the rest of check_server runs
\* without suspending, and the semaphore is released on every way out.
ProbeRespond(k, i, resp) ==
    /\ lifecycle # "closed"
    /\ i \in DOMAIN probe[k]
    /\ probe[k][i] = "inflight"
    /\ LET how == check_server(resp, jogador[k], player_uuid[k])
       IN  /\ matches' = [matches EXCEPT ![MatchList(k)] =
                             IF how = "match" THEN AppendMatch(@, i) ELSE @]
           /\ probe' = [probe EXCEPT ![k][i] =
                           IF how = "raise" THEN "raised" ELSE "done"]
           /\ semaphore' = [semaphore EXCEPT ![k] = Released(@, how)]
    /\ fetched' = [fetched EXCEPT ![k][i] = resp]
    /\ completed' = [completed EXCEPT ![k] = Append(@, i)]
    /\ UNCHANGED <<botVars, configVars, pc, jogador, player_uuid, result, sent,
                   lookups, directory, normVars, loadVars>>

\* A wait that ends with the first task to finish.
FirstTaskFinished(k) == \E i \in DOMAIN probe[k] : probe[k][i] = "done"

\* asyncio.gather(...) has its result: every task has finished.
AllTasksFinished(k) == \A i \in DOMAIN probe[k] : probe[k][i] = "done"

\* ---------------------------------------------------------------- procurar

Reply(k, message) == sent' = [sent EXCEPT ![k] = Append(@, message)]

\* Guards that leave the test of the session out.
FirstReplyWithoutSessionTest(session, targets) ==
    IF targets = <<>> THEN "no_servers" ELSE "defer"

\* Guards that leave the test of the server list out.
FirstReplyWithoutServersTest(session, targets) ==
    IF session = "None" THEN "session_not_initialized" ELSE "defer"

\* The guards of procurar: what it first sends on the interaction.
FirstReply(session, targets) ==
    IF session = "None" THEN "session_not_initialized"
    ELSE IF targets = <<>> THEN "no_servers"
    ELSE "defer"

\* procurar up to its first await: the two guards, each answered at once
\* and ending the command, or the deferral.
ProcurarStart(k, input) ==
    /\ pc[k] = "idle"
    /\ lifecycle # "closed"
    /\ jogador' = [jogador EXCEPT ![k] = input]
    /\ Reply(k, FirstReply(http_session, servers))
    /\ pc' = [pc EXCEPT ![k] =
                 IF FirstReply(http_session, servers) = "defer" THEN "deferred" ELSE "done"]
    /\ UNCHANGED <<botVars, configVars, player_uuid, fpsVars, result, lookups,
                   directory, normVars, loadVars>>

\* After the deferral: an argument the pattern matches is the identifier
\* and the probes start; any other argument is looked up in the directory.
ProcurarResolve(k) ==
    /\ lifecycle # "closed"
    /\ pc[k] = "deferred"
    /\ IF UUID_REGEX(jogador[k])
       THEN /\ FpsStart(k, <<jogador[k]>>)
            /\ UNCHANGED lookups
       ELSE /\ pc' = [pc EXCEPT ![k] = "lookup"]
            /\ lookups' = [lookups EXCEPT ![k] = @ + 1]
            /\ UNCHANGED <<player_uuid, fpsVars>>
    /\ UNCHANGED <<botVars, configVars, jogador, result, sent, directory, normVars, loadVars>>

\* The directory call is over: an exception leaves procurar, None is
\* answered with the not-found message, an identifier starts the probes.
DirectoryRespond(k, resp) ==
    /\ lifecycle # "closed"
    /\ pc[k] = "lookup"
    /\ directory' = [directory EXCEPT ![k] = resp]
    /\ LET got == fetch_uuid_for_name(resp)
       IN  IF got.exc # ""
           THEN /\ pc' = [pc EXCEPT ![k] = "raised"]
                /\ UNCHANGED <<player_uuid, fpsVars, sent>>
           ELSE IF got.value = <<>>
           THEN /\ Reply(k, "player_not_found")
                /\ pc' = [pc EXCEPT ![k] = "done"]
                /\ UNCHANGED <<player_uuid, fpsVars>>
           ELSE /\ FpsStart(k, got.value)
                /\ UNCHANGED sent
    /\ UNCHANGED <<botVars, configVars, jogador, result, lookups, normVars, loadVars>>

\* find_player_servers returns matches, and procurar answers: the no-match
\* message for an empty list, the embed of the matches otherwise.
GatherReturn(k) ==
    /\ lifecycle # "closed"
    /\ pc[k] = "gather"
    /\ AllTasksFinished(k)
    /\ result' = [result EXCEPT ![k] = <<matches[MatchList(k)]>>]
    /\ Reply(k, IF matches[MatchList(k)] = <<>> THEN "no_match" ELSE "match_list")
    /\ pc' = [pc EXCEPT ![k] = "done"]
    /\ UNCHANGED <<botVars, configVars, jogador, player_uuid, fpsVars, lookups,
                   directory, normVars, loadVars>>

\* gather() raises the first exception of a task as soon as it is raised;
\* the other tasks go on.  The exception leaves procurar.
GatherRaise(k) ==
    /\ lifecycle # "closed"
    /\ pc[k] = "gather"
    /\ \E i \in DOMAIN probe[k] : probe[k][i] = "raised"
    /\ pc' = [pc EXCEPT ![k] = "raised"]
    /\ UNCHANGED <<botVars, configVars, jogador, player_uuid, fpsVars, result, sent,
                   lookups, directory, normVars, loadVars>>

\* One invocation of procurar at a time.
Next ==
    \/ SetupHook
    \/ Close
    \/ \E input \in JogadorInputs : ProcurarStart(1, input)
    \/ ProcurarResolve(1)
    \/ \E resp \in DirectoryResponses : DirectoryRespond(1, resp)
    \/ \E i \in Targets : ProbeAcquire(1, i)
    \/ \E i \in Targets, resp \in StatusResponses : ProbeRespond(1, i, resp)
    \/ GatherReturn(1)
    \/ GatherRaise(1)

Spec == Init /\ [][Next]_vars

\* ------------------------------------------------- the probes under fairness

\* One response for each way out of check_server: a soft failure, an
\* exception that is not caught, an offline payload, a roster without
\* the player and a roster with the player.
ExitResponses ==
    {NetError, HttpResponse(200, "malformed", NoPayload),
     HttpResponse(200, "ok", Payload("false", RosterBoth)),
     HttpResponse(200, "ok", Payload("true", RosterOthers)),
     HttpResponse(200, "ok", Payload("true", RosterByUuid))}

\* The command with an identifier as its argument, so that the probes
\* start without a lookup.
NextLive ==
    \/ SetupHook
    \/ Close
    \/ ProcurarStart(1, IdA)
    \/ ProcurarResolve(1)
    \/ \E i \in Targets : ProbeAcquire(1, i)
    \/ \E i \in Targets, resp \in ExitResponses : ProbeRespond(1, i, resp)
    \/ GatherReturn(1)
    \/ GatherRaise(1)

\* The event loop runs every task that can run, and every status request
\* ends (the ClientTimeout bounds it).  Nothing forces the bot to be set up,
\* a command to arrive or the bot to be closed.
FairLive ==
    /\ WF_vars(ProcurarResolve(1))
    /\ \A i \in 1..MaxTargets :
           /\ WF_vars(ProbeAcquire(1, i))
           /\ WF_vars(\E resp \in ExitResponses : ProbeRespond(1, i, resp))
    /\ WF_vars(GatherReturn(1))
    /\ WF_vars(GatherRaise(1))

SpecLive == Init /\ [][NextLive]_vars /\ FairLive

\* ------------------------------------------------------ two commands at once

\* Two players: one given by name, whom the directory knows as IdA, and
\* one given by the identifier IdB.
PairInputs == {NameSt, IdB}

PairDirectoryResponses ==
    {HttpResponse(204, "ok", NoProfile), HttpResponse(200, "ok", [id |-> <<IdA>>])}

\* A failure, a roster with the first player's name and a roster with the
\* second player's identifier.
PairStatusResponses ==
    {NetError, HttpResponse(200, "ok", Payload("true", RosterByName)),
     HttpResponse(200, "ok", Payload("true", RosterOthers))}

\* The bot after setup_hook, with two servers configured.
InitPair ==
    /\ lifecycle = "running"
    /\ http_session = "open"
    /\ servers = <<ServerA, ServerB>>
    /\ max_concurrency \in Concurrencies
    /\ IdleInvocations
    /\ norm_a = <<>>
    /\ norm_b = <<>>
    /\ raw_config = <<>>
    /\ loaded = <<>>

\* Two invocations of procurar, their steps interleaved at every await.
NextPair ==
    \E k \in Invocations :
        \/ \E input \in PairInputs : ProcurarStart(k, input)
        \/ ProcurarResolve(k)
        \/ \E resp \in PairDirectoryResponses : DirectoryRespond(k, resp)
        \/ \E i \in Targets : ProbeAcquire(k, i)
        \/ \E i \in Targets, resp \in PairStatusResponses : ProbeRespond(k, i, resp)
        \/ GatherReturn(k)

SpecPair == InitPair /\ [][NextPair]_vars

\* ---------------------------------------------------- normalize_uuid alone

\* Identifiers of 32 lower-case hexadecimal digits.
BaseIds ==
    {[i \in 1..32 |-> IF i % 2 = 1 THEN c1 ELSE c2] : c1, c2 \in {"0", "9", "a", "f"}}

Forms == {"plain", "PLAIN", "hyphenated", "HYPHENATED", "Mixed", "newline"}

\* The written forms of an identifier: with or without hyphens, in lower
\* case, in capitals or mixed; and, no identifier, with a newline after it.
Form(id, f) ==
    CASE f = "plain" -> id
      [] f = "PLAIN" -> Upper(id)
      [] f = "hyphenated" -> Hyphenate(id)
      [] f = "HYPHENATED" -> Hyphenate(Upper(id))
      [] f = "Mixed" -> Hyphenate([i \in 1..32 |-> IF i % 3 = 0 THEN UpperChar(id[i]) ELSE id[i]])
      [] f = "newline" -> id \o <<"\n">>

\* Two written forms of one identifier, neither normalized yet.
InitNorm ==
    /\ lifecycle = "init"
    /\ http_session = "None"
    /\ servers = <<>>
    /\ max_concurrency = 1
    /\ IdleInvocations
    /\ \E id \in BaseIds, fa, fb \in Forms :
           /\ norm_a = <<Form(id, fa)>>
           /\ norm_b = <<Form(id, fb)>>
    /\ raw_config = <<>>
    /\ loaded = <<>>

\* normalize_uuid applied to the first value, and again to its result.
NormalizeA ==
    /\ Len(norm_a) \in 1..2
    /\ norm_a' = Append(norm_a, normalize_uuid(norm_a[Len(norm_a)]))
    /\ UNCHANGED <<botVars, configVars, pc, jogador, player_uuid, fpsVars, result,
                   sent, lookups, directory, norm_b, loadVars>>

\* normalize_uuid applied to the second value, and again to its result.
NormalizeB ==
    /\ Len(norm_b) \in 1..2
    /\ norm_b' = Append(norm_b, normalize_uuid(norm_b[Len(norm_b)]))
    /\ UNCHANGED <<botVars, configVars, pc, jogador, player_uuid, fpsVars, result,
                   sent, lookups, directory, norm_a, loadVars>>

NextNorm == NormalizeA \/ NormalizeB

SpecNorm == InitNorm /\ [][NextNorm]_vars

\* -------------------------------------------------------- load_config alone

\* JSON numbers, booleans and strings as Python reads them: an int, a bool
\* (an int subclass whose value is 0 or 1), a float (here n + 0.5), a str.
JInt(n) == [t |-> "int", v |-> n]

JBool(b) == [t |-> "bool", v |-> IF b THEN 1 ELSE 0]

JFloat(n) == [t |-> "float", v |-> n]

JStr(s) == [t |-> "str", v |-> s]

\* An entry of "servers" that is an object; its keys are Optional strings.
ServerEntry(n, a) == [t |-> "dict", name |-> n, address |-> a]

\* isinstance(value, int): true of an int and of a bool.
IsInstanceInt(value) == value.t \in {"int", "bool"}

\* Python truthiness of a value read from the file.
TruthyValue(value) ==
    CASE value.t \in {"absent", "null"} -> FALSE
      [] value.t \in {"int", "bool"} -> value.v # 0
      [] value.t = "str" -> value.v # <<>>
      [] value.t = "list" -> value.v # <<>>
      [] OTHER -> TRUE

\* raw.get(key, default)
GetOr(value, default) == IF value.t = "absent" THEN default ELSE value

\* The entries the comprehension keeps: objects with a truthy name and a
\* truthy address.
KeptServer(entry) ==
    /\ entry.t = "dict"
    /\ Truthy(entry.name)
    /\ Truthy(entry.address)

ServerTarget(entry) == [name |-> entry.name[1], address |-> entry.address[1]]

RECURSIVE ServersOf(_)
ServersOf(entries) ==
    IF entries = <<>> THEN <<>>
    ELSE IF KeptServer(Head(entries))
    THEN <<ServerTarget(Head(entries))>> \o ServersOf(Tail(entries))
    ELSE ServersOf(Tail(entries))

\* A validation that coerces a value below 1 to 1 and tests no type.
CoerceBelowOneOnly(value) ==
    IF value.t \in {"int", "bool", "float"} /\ value.v < 1 THEN JInt(1) ELSE value

\* if not isinstance(max_concurrency, int) or max_concurrency < 1: 1
CoerceConcurrency(value) ==
    IF ~IsInstanceInt(value) \/ value.v < 1 THEN JInt(1) ELSE value

\* load_config: FileNotFoundError without the file; the servers kept from
\* raw.get("servers", []) (a TypeError when it is null); ValueError without
\* a truthy discord_token; max_concurrency validated, and
\* request_timeout_seconds as the file holds it, 10 when it does not.
load_config(file) ==
    IF file.exists = FALSE THEN Raise("FileNotFoundError")
    ELSE IF GetOr(file.servers, List(<<>>)).t # "list" THEN Raise("TypeError")
    ELSE IF ~TruthyValue(file.discord_token) THEN Raise("ValueError")
    ELSE Return([token |-> file.discord_token,
                 servers |-> ServersOf(GetOr(file.servers, List(<<>>)).v),
                 request_timeout_seconds |->
                     GetOr(file.request_timeout_seconds, JInt(10)),
                 max_concurrency |->
                     CoerceConcurrency(GetOr(file.max_concurrency, JInt(8)))])

\* The values a numeric key of the file can hold: missing, null, integers
\* below, at and above 1, booleans, floats and a string.
NumberInputs ==
    {Absent, Null, JInt(-3), JInt(0), JInt(1), JInt(2), JInt(30),
     JBool(FALSE), JBool(TRUE), JFloat(0), JFloat(2), JStr(<<"4">>)}

TokenInputs == {Absent, Null, JStr(<<>>), JStr(<<"t", "o", "k">>)}

\* "servers": missing, null, empty, and a list with one entry to keep among
\* a bare string, an object without address and one with an empty name.
ServersInputs ==
    {Absent, Null, List(<<>>),
     List(<<StrEntry(<<"A">>), ServerEntry(<<<<"A">>>>, <<>>),
            ServerEntry(<<<<"A">>>>, <<<<"a", ".", "x">>>>),
            ServerEntry(<<<<>>>>, <<<<"b", ".", "x">>>>)>>)}

ConfigFiles ==
    [exists : BOOLEAN, discord_token : TokenInputs, servers : ServersInputs,
     request_timeout_seconds : NumberInputs, max_concurrency : NumberInputs]

\* A configuration file, not read yet.
InitConfig ==
    /\ lifecycle = "init"
    /\ http_session = "None"
    /\ servers = <<>>
    /\ max_concurrency = 1
    /\ IdleInvocations
    /\ norm_a = <<>>
    /\ norm_b = <<>>
    /\ raw_config \in {<<f>> : f \in ConfigFiles}
    /\ loaded = <<>>

\* config = load_config(...)
LoadConfig ==
    /\ raw_config # <<>>
    /\ loaded = <<>>
    /\ loaded' = <<load_config(raw_config[1])>>
    /\ UNCHANGED <<botVars, configVars, pc, jogador, player_uuid, fpsVars, result,
                   sent, lookups, directory, normVars, raw_config>>

NextConfig == LoadConfig

SpecConfig == InitConfig /\ [][NextConfig]_vars

\* ----------------------------------------------------------------- claims

\* The invocations that have called find_player_servers.
Probing(k) == probe[k] # <<>>

\* find_player_servers has returned to procurar.
Returned(k) == result[k] # <<>>

InFlight(k) == {i \in DOMAIN probe[k] : probe[k][i] = "inflight"}

Waiting(k) == {i \in DOMAIN probe[k] : probe[k][i] = "pending"}

\* The status call of probe i ended in a network error, a timeout or a
\* status that is not a success.
SoftFailed(k, i) ==
    \/ fetched[k][i].net \in {"error", "timeout"}
    \/ fetched[k][i].net = "response" /\ fetched[k][i].status >= 400

\* The status call of probe i brought a payload back.
Succeeded(k, i) ==
    /\ fetched[k][i].net = "response"
    /\ fetched[k][i].status < 400
    /\ fetched[k][i].json = "ok"

\* The strings a roster field holds: its bare strings, and the values its
\* objects hold under key, when they are not empty.
RosterStrings(field, key) ==
    IF field.t # "list" THEN {}
    ELSE {field.v[n].v : n \in {m \in 1..Len(field.v) : field.v[m].t = "str"}}
         \cup {field.v[n][key][1] :
                   n \in {m \in 1..Len(field.v) :
                              /\ field.v[m].t = "dict"
                              /\ field.v[m][key] # <<>>
                              /\ field.v[m][key][1] # <<>>}}

RosterNames(payload) ==
    IF payload.players.t = "dict" THEN RosterStrings(payload.players.list, "name") ELSE {}

RosterIds(payload) ==
    IF payload.players.t = "dict" THEN RosterStrings(payload.players.uuid, "uuid") ELSE {}

\* Two strings that differ in letter case at most.
SameIgnoringCase(a, b) ==
    /\ Len(a) = Len(b)
    /\ \A n \in 1..Len(a) : a[n] = b[n] \/ LowerChar(a[n]) = b[n] \/ a[n] = LowerChar(b[n])

\* The characters of an identifier that are not hyphens, in lower case.
Canonical(id) ==
    LET upto[n \in 0..Len(id)] ==
            IF n = 0 THEN <<>>
            ELSE IF id[n] = "-" THEN upto[n - 1]
            ELSE Append(upto[n - 1], LowerChar(id[n]))
    IN  upto[Len(id)]

\* The match predicate of the specification for the payload of probe i.
ShouldMatch(k, i) ==
    /\ Succeeded(k, i)
    /\ fetched[k][i].body.online = "true"
    /\ \/ \E n \in RosterNames(fetched[k][i].body) : SameIgnoringCase(jogador[k], n)
       \/ /\ player_uuid[k] # <<>>
          /\ player_uuid[k][1] # <<>>
          /\ \E u \in RosterIds(fetched[k][i].body) :
                 Canonical(u) = Canonical(player_uuid[k][1])

\* How often the target at index i is in a sequence of indices.
Occurrences(seq, i) == Cardinality({n \in 1..Len(seq) : seq[n] = i})

\* C1: the probes of one find_player_servers call that hold the semaphore
\* are never more than max_concurrency.
C1_ConcurrencyCeiling ==
    \A k \in Invocations : Cardinality(InFlight(k)) <= max_concurrency

\* C1 witness: the ceiling is reached while another probe waits outside.
C1_Witness ==
    \E k \in Invocations :
        /\ Cardinality(InFlight(k)) = max_concurrency
        /\ Waiting(k) # {}

\* C2: when find_player_servers has returned, every target's probe was
\* issued and has finished: none is waiting or in flight, and none was
\* skipped, whatever its siblings did.
C2_AllProbesFinished ==
    \A k \in Invocations :
        Returned(k) =>
            /\ DOMAIN probe[k] = Targets
            /\ \A i \in Targets :
                   /\ probe[k][i] = "done"
                   /\ fetched[k][i].net # "none"
                   /\ Occurrences(completed[k], i) = 1

\* C2 witness: a return after one probe failed softly and a later one went
\* on to match.
C2_Witness ==
    \E k \in Invocations :
        /\ Returned(k)
        /\ \E i, j \in Targets :
               /\ SoftFailed(k, i)
               /\ Succeeded(k, j)
               /\ completed[k] = <<i, j>>
               /\ result[k][1] = <<j>>

C4_OfflineNeverMatches ==
    \A k \in Invocations :
        \A i \in DOMAIN probe[k] :
            (Succeeded(k, i) /\ fetched[k][i].body.online # "true") =>
                /\ Occurrences(matches[k], i) = 0
                /\ Returned(k) => Occurrences(result[k][1], i) = 0

\* C4 witness: a returned result without a target whose payload, online
\* absent, lists the player's name and identifier.
C4_Witness ==
    \E k \in Invocations :
        /\ Returned(k)
        /\ \E i \in Targets :
               /\ Succeeded(k, i)
               /\ fetched[k][i].body.online = "absent"
               /\ jogador[k] \in RosterNames(fetched[k][i].body)
               /\ Occurrences(result[k][1], i) = 0

\* C5: the returned result holds exactly the targets that should match,
\* each once for each of its places in the target sequence.
C5_ResultIsExactlyTheMatches ==
    \A k \in Invocations :
        Returned(k) =>
            /\ Range(result[k][1]) \subseteq Targets
            /\ \A i \in Targets :
                   Occurrences(result[k][1], i) = IF ShouldMatch(k, i) THEN 1 ELSE 0

\* C5 witness: a result of two targets, one matched by a name in another
\* letter case, one by an identifier in another form.
C5_Witness ==
    \E k \in Invocations :
        /\ Returned(k)
        /\ Len(result[k][1]) = 2
        /\ \E i, j \in Targets :
               /\ fetched[k][i].body = Payload("true", RosterByName)
               /\ fetched[k][j].body = Payload("true", RosterByUuid)
               /\ jogador[k] = NameSt

\* The targets of the result, and the matched targets in configured order.
ResultTargets(k) == [n \in 1..Len(result[k][1]) |-> servers[result[k][1][n]]]

InConfiguredOrder(k) ==
    LET hit == SelectSeq([i \in Targets |-> i], LAMBDA i : i \in Range(result[k][1]))
    IN  [n \in 1..Len(hit) |-> servers[hit[n]]]

\* C6 as claimed: the returned result lists the matching targets in the
\* configured server order.
C6_ConfiguredOrder ==
    \A k \in Invocations : Returned(k) => ResultTargets(k) = InConfiguredOrder(k)

\* C6 as amended: the returned result lists the matching targets in the
\* order in which their probes finished.
C6_CompletionOrder ==
    \A k \in Invocations :
        Returned(k) =>
            result[k][1] = SelectSeq(completed[k], LAMBDA i : i \in Range(result[k][1]))

\* C6 witness: a returned result whose targets are not in configured order.
C6_Witness ==
    \E k \in Invocations :
        /\ Returned(k)
        /\ Len(result[k][1]) = 2
        /\ ResultTargets(k) # InConfiguredOrder(k)

\* C7: once the directory has answered a lookup with status 204, the
\* command has ended with the not-found message and has issued no probe.
C7_NotFoundEndsWithoutProbes ==
    \A k \in Invocations :
        (directory[k].net = "response" /\ directory[k].status = 204) =>
            /\ pc[k] = "done"
            /\ sent[k] = <<"defer", "player_not_found">>
            /\ ~Probing(k)
            /\ fetched[k] = <<>>
            /\ completed[k] = <<>>

\* C7 witness: a command ended by a 204 for a name, with servers configured.
C7_Witness ==
    \E k \in Invocations :
        /\ directory[k].status = 204
        /\ jogador[k] = NameSt
        /\ Len(servers) = 2
        /\ pc[k] = "done"

\* No directory call and no probe has been issued by invocation k.
NoNetworkCall(k) ==
    /\ lookups[k] = 0
    /\ directory[k].net = "none"
    /\ ~Probing(k)
    /\ fetched[k] = <<>>

\* C8 as claimed: with an empty server list a command ends with the
\* no-servers message and issues no network call.
C8_NoServersOutcome ==
    \A k \in Invocations :
        (servers = <<>> /\ pc[k] # "idle") =>
            /\ pc[k] = "done"
            /\ sent[k] = <<"no_servers">>
            /\ NoNetworkCall(k)

\* C8 as amended: with an empty server list a command issues no network
\* call and ends at once, with the no-servers message when the HTTP session
\* exists and with the session-not-initialized message when it does not.
C8_NoServersNoNetwork ==
    /\ [](\A k \in Invocations :
              servers = <<>> =>
                  /\ NoNetworkCall(k)
                  /\ pc[k] \in {"idle", "done"}
                  /\ pc[k] = "done" =>
                         sent[k] \in {<<"no_servers">>, <<"session_not_initialized">>})
    /\ [][\A k \in Invocations :
              (servers = <<>> /\ pc[k] = "idle" /\ pc'[k] # "idle") =>
                  sent'[k] = IF http_session = "None"
                             THEN <<"session_not_initialized">>
                             ELSE <<"no_servers">>]_vars

\* C8 witness: a command ended with the no-servers message.
C8_Witness ==
    \E k \in Invocations :
        /\ servers = <<>>
        /\ pc[k] = "done"
        /\ sent[k] = <<"no_servers">>

\* 32 hexadecimal digits, or the same in the 8-4-4-4-12 hyphenation.
IdentifierShaped(s) ==
    \/ /\ Len(s) = 32
       /\ \A n \in 1..32 : s[n] \in HexChars
    \/ /\ Len(s) = 36
       /\ \A n \in 1..36 : IF n \in {9, 14, 19, 24} THEN s[n] = "-" ELSE s[n] \in HexChars

\* C9 as claimed: a command past the no-servers check that has resolved
\* its argument has issued one directory call when the argument is not
\* identifier-shaped and none when it is, and no probe before that call
\* was answered.
C9_LookupIffNotIdentifierShaped ==
    \A k \in Invocations :
        (sent[k] # <<>> /\ sent[k][1] = "defer" /\ pc[k] # "deferred") =>
            /\ lookups[k] = IF IdentifierShaped(jogador[k]) THEN 0 ELSE 1
            /\ (lookups[k] = 1 /\ Probing(k)) => directory[k].net # "none"

\* C10: normalizing an identifier-shaped value twice gives what normalizing
\* it once gives, and two forms of one identifier have one normal form, of
\* 32 lower-case hexadecimal digits.
C10_NormalizeIdempotent ==
    /\ \A t \in {norm_a, norm_b} :
           (Len(t) = 3 /\ IdentifierShaped(t[1])) => t[3] = t[2]
    /\ ( /\ Len(norm_a) >= 2
         /\ Len(norm_b) >= 2
         /\ IdentifierShaped(norm_a[1])
         /\ IdentifierShaped(norm_b[1]) ) =>
           /\ norm_a[2] = norm_b[2]
           /\ Len(norm_a[2]) = 32
           /\ \A n \in 1..32 : norm_a[2][n] \in Digits \cup {"a", "b", "c", "d", "e", "f"}

\* C10 witness: a hyphenated identifier in capitals and its unhyphenated
\* form in lower case, both normalized twice.
C10_Witness ==
    /\ Len(norm_a) = 3
    /\ Len(norm_b) = 3
    /\ norm_a[1] # norm_b[1]
    /\ MatchesHyphenated(norm_a[1]) /\ IdentifierShaped(norm_a[1])
    /\ norm_a[1] = Upper(norm_a[1]) /\ norm_a[1] # Lower(norm_a[1])
    /\ MatchesPlain(norm_b[1]) /\ IdentifierShaped(norm_b[1])
    /\ norm_b[1] = Lower(norm_b[1])

\* ------------------------------------------------- the command's failures

\* The invocation is over: procurar returned, or an exception left it.
Ended(k) == pc[k] \in {"done", "raised"}

\* The directory call failed: no connection, a timeout, or a status that
\* raise_for_status() raises for.
DirectoryFailed(k) ==
    \/ directory[k].net \in {"error", "timeout"}
    \/ directory[k].net = "response" /\ directory[k].status >= 400

\* The directory answered with a status outside 200..299.
DirectoryNonSuccess(k) ==
    /\ directory[k].net = "response"
    /\ directory[k].status \notin 200..299

\* C11: no invocation of procurar ends with an exception that leaves the
\* handler: every error is caught in procurar and answered with a message.
C11_NoErrorEscapes ==
    \A k \in Invocations : pc[k] # "raised"

ConfigReturned == loaded # <<>> /\ loaded[1].exc = ""

\* A Python integer (a bool is one) whose value is at least 1.
IntegerAtLeastOne(value) == value.t \in {"int", "bool"} /\ value.v >= 1

\* C13: the max_concurrency of every BotConfig that load_config returns is
\* an integer >= 1: 8 when the file has no such key, the file's value when
\* it is an integer >= 1, and 1 for any other value.
C13_MaxConcurrencyAtLeastOne ==
    ConfigReturned =>
        LET given == raw_config[1].max_concurrency
            kept == loaded[1].value[1].max_concurrency
        IN  /\ IntegerAtLeastOne(kept)
            /\ given.t = "absent" => kept = JInt(8)
            /\ (given.t # "absent" /\ IntegerAtLeastOne(given)) => kept = given
            /\ (given.t # "absent" /\ ~IntegerAtLeastOne(given)) => kept = JInt(1)

C13_Witness ==
    /\ ConfigReturned
    /\ raw_config[1].max_concurrency = JFloat(2)
    /\ loaded[1].value[1].max_concurrency = JInt(1)

\* C14: the request_timeout_seconds of every BotConfig that load_config
\* returns is an integer >= 1, whatever the file holds under that key.
C14_TimeoutAtLeastOne ==
    ConfigReturned => IntegerAtLeastOne(loaded[1].value[1].request_timeout_seconds)

\* ------------------------------------------------------- one probe a target

\* The task of target i has left check_server.
Finished(k, i) == probe[k][i] \in {"done", "raised"}

\* C15: in one call of find_player_servers every element of the target
\* sequence has one task, and a task fetches the status once: a task that
\* has finished has finished once and has one response, a task that has not
\* has none, and at the return every index has finished once, the indices
\* of equal targets each on their own.
C15_EachTargetProbedOnce ==
    \A k \in Invocations :
        Probing(k) =>
            /\ DOMAIN probe[k] = Targets
            /\ \A i \in Targets :
                   /\ Occurrences(completed[k], i) = IF Finished(k, i) THEN 1 ELSE 0
                   /\ Finished(k, i) <=> fetched[k][i] # NoResponse
            /\ Returned(k) => Len(completed[k]) = Len(servers)

\* The same target configured twice: the first probe fails, the second one
\* matches and is the whole result.
C15_Witness ==
    /\ servers = <<ServerA, ServerA>>
    /\ Returned(1)
    /\ result[1][1] = <<2>>
    /\ SoftFailed(1, 1)
    /\ Succeeded(1, 2)
    /\ Occurrences(completed[1], 1) = 1
    /\ Occurrences(completed[1], 2) = 1

\* --------------------------------------------------------- the extraction

\* C16: a probe whose status call brought a payload back does not raise:
\* extract_players returns its two lists for every shape of the players
\* object, and no exception reaches gather().
C16_ExtractionNeverRaises ==
    \A k \in Invocations :
        \A i \in DOMAIN probe[k] : Succeeded(k, i) => probe[k][i] # "raised"

\* ----------------------------------------------------- the admission gate

\* find_player_servers is over: it returned, or gather() raised.
FpsOver(k) == Probing(k) /\ pc[k] # "gather"

AllSlotsFree(k) == semaphore[k] = max_concurrency

C18_InvocationsDoNotInterfere ==
    \A k \in Invocations :
        Probing(k) =>
            /\ semaphore[k] + Cardinality(InFlight(k)) = max_concurrency
            /\ \A n \in 1..Len(matches[k]) :
                   /\ probe[k][matches[k][n]] = "done"
                   /\ ShouldMatch(k, matches[k][n])
            /\ Returned(k) =>
                   \A i \in Targets :
                       Occurrences(result[k][1], i) = IF ShouldMatch(k, i) THEN 1 ELSE 0

\* Both invocations got the same answer from the second server, which has
\* the second player only, and the first server answered the first player's
\* invocation only: each result holds its own match.
C18_Witness ==
    /\ jogador[1] = NameSt
    /\ jogador[2] = IdB
    /\ Returned(1)
    /\ Returned(2)
    /\ fetched[1][2] = fetched[2][2]
    /\ result[1][1] = <<1>>
    /\ result[2][1] = <<2>>

\* ------------------------------------------------------------ the answers

\* A network call of the invocation raised an exception that left procurar:
\* the directory call raised, or a status call raised what check_server
\* does not catch.
NetworkCallRaised(k) ==
    \/ directory[k].net # "none" /\ fetch_uuid_for_name(directory[k]).exc # ""
    \/ \E i \in DOMAIN fetched[k] :
           /\ fetched[k][i].net # "none"
           /\ fetch_server_status(fetched[k][i]).exc # ""
           /\ ~CaughtByProbe(fetch_server_status(fetched[k][i]).exc)

\* The ways an interaction is answered once: one immediate response, or
\* the deferral and one follow-up.
Answers ==
    {<<"session_not_initialized">>, <<"no_servers">>, <<"defer", "player_not_found">>,
     <<"defer", "no_match">>, <<"defer", "match_list">>}

\* C19: every invocation that has ended and in which no network call
\* raised past the handler has answered its interaction once, with one of
\* the five outcomes, the match list only for a non-empty match sequence;
\* an invocation still in progress has sent the deferral at most.
C19_AnsweredExactlyOnce ==
    \A k \in Invocations :
        /\ ~Ended(k) => sent[k] \in {<<>>, <<"defer">>}
        /\ (Ended(k) /\ ~NetworkCallRaised(k)) =>
               /\ sent[k] \in Answers
               /\ sent[k] = <<"defer", "match_list">> =>
                      Returned(k) /\ result[k][1] # <<>>
               /\ sent[k] = <<"defer", "no_match">> =>
                      Returned(k) /\ result[k][1] = <<>>

\* ------------------------------------------------------------ the session

\* C20: while bot.http_session is None no directory call and no probe has
\* been issued, and a command that has arrived has ended with the
\* session-not-initialized message alone, which stays its only message;
\* every network step is taken with the session open; the session is
\* created once, by setup_hook, and closed by close only.
C20_NoNetworkWithoutSession ==
    /\ [](\A k \in Invocations :
              /\ http_session = "None" =>
                     /\ lookups[k] = 0
                     /\ directory[k] = NoDirResponse
                     /\ ~Probing(k)
                     /\ pc[k] \in {"idle", "done"}
              /\ (http_session = "None" /\ pc[k] = "done") =>
                     sent[k] = <<"session_not_initialized">>
              /\ (sent[k] # <<>> /\ sent[k][1] = "session_not_initialized") =>
                     /\ sent[k] = <<"session_not_initialized">>
                     /\ pc[k] = "done"
                     /\ lookups[k] = 0
                     /\ ~Probing(k))
    /\ [][/\ \A k \in Invocations :
                 (lookups'[k] # lookups[k] \/ probe'[k] # probe[k]
                      \/ directory'[k] # directory[k])
                     => http_session = "open"
          /\ http_session' # http_session =>
                 \/ /\ http_session = "None"
                    /\ http_session' = "open"
                    /\ lifecycle = "init"
                 \/ /\ http_session = "open"
                    /\ http_session' = "closed"
                    /\ lifecycle' = "closed"]_vars

\* A command arrived before setup_hook and was answered; the bot was then
\* set up, with the command's answer as it was.
C20_Witness ==
    /\ http_session = "open"
    /\ servers # <<>>
    /\ pc[1] = "done"
    /\ sent[1] = <<"session_not_initialized">>
    /\ lookups[1] = 0
    /\ ~Probing(1)

=============================================================================
